---- MODULE Spec2Model ----
(***************************************************************************)
(* A model of the moray batch-update benchmark harness (src/main.rs):      *)
(* service discovery, client construction, bucket get-or-create, corpus   *)
(* generation, seeding, and four timed passes (sequential, batch, batch,   *)
(* sequential), each over a freshly altered copy of the corpus.            *)
(*                                                                         *)
(* The store, the DNS resolver and the random generators are external:     *)
(* their answers are drawn nondeterministically from small sets.           *)
(***************************************************************************)
EXTENDS Integers, Sequences, FiniteSets, TLC

(* ---------------------------------------------------------------- bounds *)

\* The largest corpus size handed to gen_test_objects (10000 in main).
MaxObjects == 3

\* The largest flush threshold handed to run_batch_test (50 in main).
MaxBatch == 2

\* The longest placement-descriptor list of an arbitrary corpus object.
MaxSharks == 2

(* ------------------------------------------------------- external values *)

BUCKET_NAME == "rust_batch_test_bucket"

\* Identifiers MantaObject::arbitrary may give an object (object_id).
ObjectIds == {"o1", "o2", "o3"}

\* Values random_string(10) may return, and values of the u16 rng.gen().
RandStrings == {"aaaaaaaaaa", "bbbbbbbbbb"}
RandIds == {7, 65535}

\* SRV records and addresses the resolver may answer with.
SrvPool ==
    { [target |-> "h1", port |-> 2020], [target |-> "h2", port |-> 2021] }
IpPool == {"10.0.0.1", "10.0.0.2"}
Targets == { s.target : s \in SrvPool }

(* --------------------------------------------------------------- helpers *)

Ok(v) == [ok |-> TRUE, val |-> v]
Err(e) == [ok |-> FALSE, val |-> e]
None == [ok |-> FALSE, val |-> "none"]

\* Sequences without repetition over S, of length at most 2.
Lists(S) ==
    {<<>>} \cup { <<a>> : a \in S }
           \cup { s \in { <<a, b>> : a \in S, b \in S } : s[1] # s[2] }

\* Sequences over S of length at most n.
RECURSIVE SeqsUpTo(_, _)
SeqsUpTo(S, n) ==
    IF n = 0 THEN {<<>>}
    ELSE LET shorter == SeqsUpTo(S, n - 1)
         IN  shorter \cup { Append(s, x) : s \in shorter, x \in S }

EmptyMap == [k \in {} |-> 0]

\* HashMap::insert: a present key is overwritten.
Insert(m, k, v) == [x \in DOMAIN m \cup {k} |-> IF x = k THEN v ELSE m[x]]

\* Vec::pop: the last element is removed; an empty vector is left empty.
Pop(s) == IF Len(s) = 0 THEN s ELSE SubSeq(s, 1, Len(s) - 1)

\* format!("{}.stor.domain", n)
StorageId(n) == ToString(n) \o ".stor.domain"

MantaObjectShark(dc, n) == [datacenter |-> dc, manta_storage_id |-> StorageId(n)]

\* gen_range with the upper bound included.
GenRangeInclusive(low, high) == low .. high

\* rng.gen_range(low, high): high is exclusive.
GenRange(low, high) == low .. (high - 1)

\* serde_json::to_value of a MantaObject: the JSON object of its fields.
ToValue(mobj) == [objectId |-> mobj.object_id, sharks |-> mobj.sharks]

(* ------------------------------------------------------ service locator *)

\* get_srv_record: the results it may return for a resolver answer.
get_srv_record(lookup) ==
    IF ~lookup.ok THEN {Err("resolver")}
    ELSE IF lookup.val = <<>> THEN {Err("catchall")}
    ELSE { Ok(lookup.val[i]) : i \in 1 .. Len(lookup.val) }

\* lookup_ip taking the last address of the resolution result.
lookup_ip_last(resolved) ==
    IF ~resolved.ok THEN Err("resolver")
    ELSE IF resolved.val = <<>> THEN Err("catchall")
    ELSE Ok(resolved.val[Len(resolved.val)])

\* lookup_ip answering an empty resolution result with the unspecified
\* address instead of an error.
lookup_ip_or_default(resolved) ==
    IF ~resolved.ok THEN Err("resolver")
    ELSE IF resolved.val = <<>> THEN Ok("0.0.0.0")
    ELSE Ok(resolved.val[1])

\* lookup_ip: the first address of the resolution result.
lookup_ip(resolved) ==
    IF ~resolved.ok THEN Err("resolver")
    ELSE IF resolved.val = <<>> THEN Err("catchall")
    ELSE Ok(resolved.val[1])

\* get_moray_srv_sockaddr, given the chosen record's result and the
\* resolution result of its target.
get_moray_srv_sockaddr(srv, resolved) ==
    IF ~srv.ok THEN srv
    ELSE LET ip == lookup_ip(resolved)
         IN  IF ~ip.ok THEN ip
             ELSE Ok([ip |-> ip.val, port |-> srv.val.port])

(* ---------------------------------------------------------------- corpus *)

\* The sharks gen_test_objects builds from its two draws.
gen_sharks(n1, n2) == << MantaObjectShark("foo", n1), MantaObjectShark("foo", n2) >>

\* alter_object without the pop.
alter_object_no_pop(v, rand_string, rand_id) ==
    [v EXCEPT !.sharks = Append(v.sharks, MantaObjectShark(rand_string, rand_id))]

\* One object of alter_objects: clone, pop, push the shared shark.
alter_object(v, rand_string, rand_id) ==
    [v EXCEPT !.sharks = Append(Pop(v.sharks), MantaObjectShark(rand_string, rand_id))]

\* alter_objects: the mapping it returns.
alter_objects(objs, rand_string, rand_id) ==
    [k \in DOMAIN objs |-> ToValue(alter_object(objs[k], rand_string, rand_id))]

\* Strategy with the two orders alike: sequential, batch, sequential, batch.
StrategySameOrder(p) == IF p \in {1, 3} THEN "sequential" ELSE "batch"

\* The runner main calls in each of its four passes.
Strategy(p) == IF p \in {1, 4} THEN "sequential" ELSE "batch"

(* ----------------------------------------------------------------- state *)

VARIABLES
    pc,             \* control location of main
    num_objects,    \* the count handed to gen_test_objects
    batch_size,     \* the threshold handed to run_batch_test
    srv_lookup,     \* the resolver's answer to the SRV query
    host_lookup,    \* the resolver's answer for each target host
    srv_record,     \* the result of get_srv_record
    sock_addr,      \* the result of get_moray_srv_sockaddr
    mclient,        \* whether the client handle exists
    bucket,         \* whether the bucket exists in the store
    bucket_calls,   \* the bucket operations issued, in order
    test_objects,   \* the baseline corpus
    generated,      \* the objects the loop of gen_test_objects has built, in order
    objects,        \* the altered mapping handed to the running pass
    alter_rand,     \* the token and integer the last alter_objects call drew
    pass,           \* ordinal of the current pass, 0 before the first
    todo,           \* keys the running loop has not visited yet
    puts,           \* put_object calls of the running loop, per key
    put_values,     \* the value the running loop wrote under each key
    put_calls,      \* put_object calls issued since start
    batch,          \* the pending request list of run_batch_test
    batch_count,    \* its counter
    batch_calls,    \* the batches the running batch pass has sent
    measurements,   \* the durations printed, by strategy
    write_failed,   \* whether the store has answered a write with an error
    err             \* the call that ended the run, "none" while it runs

vars == << pc, num_objects, batch_size, srv_lookup, host_lookup, srv_record,
           sock_addr, mclient, bucket, bucket_calls, test_objects, generated,
           objects, alter_rand, pass, todo, puts, put_values, put_calls, batch,
           batch_count, batch_calls, measurements, write_failed, err >>

locator_vars == << srv_lookup, host_lookup, srv_record, sock_addr >>
bucket_vars == << bucket, bucket_calls >>
corpus_vars == << test_objects, generated >>
param_vars == << num_objects, batch_size >>
batch_vars == << batch, batch_count, batch_calls >>

Defaults ==
    /\ srv_lookup = None
    /\ host_lookup = None
    /\ srv_record = None
    /\ sock_addr = None
    /\ mclient = FALSE
    /\ bucket_calls = <<>>
    /\ test_objects = EmptyMap
    /\ generated = <<>>
    /\ objects = EmptyMap
    /\ alter_rand = None
    /\ pass = 0
    /\ todo = {}
    /\ puts = EmptyMap
    /\ put_values = EmptyMap
    /\ put_calls = 0
    /\ batch = <<>>
    /\ batch_count = 0
    /\ batch_calls = <<>>
    /\ measurements = <<>>
    /\ write_failed = FALSE
    /\ err = "none"

Init ==
    /\ pc = "create_client"
    /\ num_objects \in 0 .. MaxObjects
    /\ batch_size \in 1 .. MaxBatch
    /\ bucket \in BOOLEAN
    /\ Defaults

(* ----------------------------------------------------- create_client *)

\* create_client, up to the endpoint: get_moray_srv_sockaddr asks the
\* resolver for the SRV records, picks one at random and resolves its target.
\* An error is returned through create_client and main.
GetMoraySrvSockaddr ==
    /\ pc = "create_client"
    /\ \E lookup \in {Err("resolver")} \cup { Ok(l) : l \in Lists(SrvPool) },
          resolver \in [Targets -> {Err("resolver")} \cup { Ok(l) : l \in Lists(IpPool) }] :
         \E srv \in get_srv_record(lookup) :
            LET resolved == IF srv.ok THEN resolver[srv.val.target] ELSE None
                addr == get_moray_srv_sockaddr(srv, resolved)
            IN  /\ srv_lookup' = lookup
                /\ srv_record' = srv
                /\ host_lookup' = resolver
                /\ sock_addr' = addr
                /\ IF addr.ok
                   THEN /\ pc' = "client_new"
                        /\ err' = err
                   ELSE /\ pc' = "failed"
                        /\ err' = "discovery"
    /\ UNCHANGED << param_vars, mclient, bucket_vars, corpus_vars, objects,
                    alter_rand, pass, todo, puts, put_values, put_calls, batch_vars,
                    measurements, write_failed >>

\* create_client, the rest: MorayClient::new connects to the endpoint or
\* fails; the locals of the lookup are gone when create_client returns.
MorayClientNew ==
    /\ pc = "client_new"
    /\ \/ /\ mclient' = TRUE
          /\ pc' = "get_bucket"
          /\ err' = err
       \/ /\ mclient' = FALSE
          /\ pc' = "failed"
          /\ err' = "client"
    /\ srv_lookup' = None
    /\ host_lookup' = None
    /\ srv_record' = None
    /\ sock_addr' = None
    /\ UNCHANGED << param_vars, bucket_vars, corpus_vars, objects, alter_rand,
                    pass, todo, puts, put_values, put_calls, batch_vars, measurements,
                    write_failed >>

(* ------------------------------------------------- get or create bucket *)

\* mclient.get_bucket(..).is_err(): an absent bucket is an error, and so
\* may be any other failure of the call.
GetBucket ==
    /\ pc = "get_bucket"
    /\ \E ok \in (IF bucket THEN BOOLEAN ELSE {FALSE}) :
         /\ bucket_calls' = Append(bucket_calls,
                                   [op |-> "get_bucket", name |-> BUCKET_NAME, ok |-> ok])
         /\ pc' = IF ok THEN "gen_objects" ELSE "create_bucket"
    /\ UNCHANGED << param_vars, locator_vars, mclient, bucket, corpus_vars,
                    objects, alter_rand, pass, todo, puts, put_values, put_calls,
                    batch_vars, measurements, write_failed, err >>

\* CreateBucket with the error of create_bucket returned from main.
CreateBucketOrFail ==
    /\ pc = "create_bucket"
    /\ \E ok \in (IF bucket THEN {FALSE} ELSE BOOLEAN) :
         /\ bucket_calls' = Append(bucket_calls,
                                   [op |-> "create_bucket", name |-> BUCKET_NAME, ok |-> ok])
         /\ bucket' = (bucket \/ ok)
         /\ pc' = IF ok THEN "gen_objects" ELSE "failed"
         /\ err' = IF ok THEN err ELSE "create_bucket"
    /\ UNCHANGED << param_vars, locator_vars, mclient, corpus_vars, objects,
                    alter_rand, pass, todo, puts, put_values, put_calls, batch_vars,
                    measurements, write_failed >>

\* mclient.create_bucket(..): both arms of the match only print.
CreateBucket ==
    /\ pc = "create_bucket"
    /\ \E ok \in (IF bucket THEN {FALSE} ELSE BOOLEAN) :
         /\ bucket_calls' = Append(bucket_calls,
                                   [op |-> "create_bucket", name |-> BUCKET_NAME, ok |-> ok])
         /\ bucket' = (bucket \/ ok)
    /\ pc' = "gen_objects"
    /\ UNCHANGED << param_vars, locator_vars, mclient, corpus_vars, objects,
                    alter_rand, pass, todo, puts, put_values, put_calls, batch_vars,
                    measurements, write_failed, err >>

(* ------------------------------------------------------ gen_test_objects *)

\* The records MantaObject::arbitrary may return.
ArbitraryObjects ==
    { [object_id |-> id, sharks |-> s] :
        id \in ObjectIds, s \in {<<>>, << MantaObjectShark("bar", 9) >>} }

\* GenObject without the assignment mobj.sharks = sharks.
GenObjectKeepArbitrary ==
    /\ pc = "gen_objects"
    /\ Len(generated) < num_objects
    /\ \E arb \in ArbitraryObjects :
         /\ test_objects' = Insert(test_objects, arb.object_id, arb)
         /\ generated' = Append(generated, arb)
    /\ UNCHANGED << pc, param_vars, locator_vars, mclient, bucket_vars,
                    objects, alter_rand, pass, todo, puts, put_values, put_calls,
                    batch_vars, measurements, write_failed, err >>

\* GenObject keeping the entry a key already has.
GenObjectKeepFirst ==
    /\ pc = "gen_objects"
    /\ Len(generated) < num_objects
    /\ \E arb \in ArbitraryObjects,
          n1 \in GenRange(1 + 0 * 2, 3 + 0 * 2),
          n2 \in GenRange(1 + 1 * 2, 3 + 1 * 2) :
         LET mobj == [arb EXCEPT !.sharks = gen_sharks(n1, n2)]
         IN  /\ test_objects' = IF mobj.object_id \in DOMAIN test_objects
                                THEN test_objects
                                ELSE Insert(test_objects, mobj.object_id, mobj)
             /\ generated' = Append(generated, mobj)
    /\ UNCHANGED << pc, param_vars, locator_vars, mclient, bucket_vars,
                    objects, alter_rand, pass, todo, puts, put_values, put_calls,
                    batch_vars, measurements, write_failed, err >>

\* One iteration of the loop of gen_test_objects.
GenObject ==
    /\ pc = "gen_objects"
    /\ Len(generated) < num_objects
    /\ \E arb \in ArbitraryObjects,
          n1 \in GenRange(1 + 0 * 2, 3 + 0 * 2),
          n2 \in GenRange(1 + 1 * 2, 3 + 1 * 2) :
         LET mobj == [arb EXCEPT !.sharks = gen_sharks(n1, n2)]
         IN  /\ test_objects' = Insert(test_objects, mobj.object_id, mobj)
             /\ generated' = Append(generated, mobj)
    /\ UNCHANGED << pc, param_vars, locator_vars, mclient, bucket_vars,
                    objects, alter_rand, pass, todo, puts, put_values, put_calls,
                    batch_vars, measurements, write_failed, err >>

\* gen_test_objects returns; main starts the seeding loop.
GenReturn ==
    /\ pc = "gen_objects"
    /\ Len(generated) = num_objects
    /\ pc' = "seed"
    /\ generated' = <<>>
    /\ todo' = DOMAIN test_objects
    /\ puts' = [k \in DOMAIN test_objects |-> 0]
    /\ put_values' = EmptyMap
    /\ UNCHANGED << param_vars, locator_vars, mclient, bucket_vars,
                    test_objects, objects, alter_rand, pass, put_calls,
                    batch_vars, measurements, write_failed, err >>

(* --------------------------------------------------------------- seeding *)

\* The answers the store may give to a write: with the bucket absent the
\* write fails, and a write may fail for any other reason.
WriteResults == IF bucket THEN BOOLEAN ELSE {FALSE}

\* SeedPut with the result of put_object dropped instead of expected.
SeedPutIgnoreErr ==
    /\ pc = "seed"
    /\ \E key \in todo, ok \in WriteResults :
         /\ puts' = [puts EXCEPT ![key] = @ + 1]
         /\ put_values' = Insert(put_values, key, ToValue(test_objects[key]))
         /\ put_calls' = put_calls + 1
         /\ todo' = todo \ {key}
         /\ write_failed' = ~ok
    /\ UNCHANGED << pc, err, param_vars, locator_vars, mclient, bucket_vars,
                    corpus_vars, objects, alter_rand, pass, batch_vars,
                    measurements >>

\* One iteration of the seeding loop: put_object(..).expect("put object").
SeedPut ==
    /\ pc = "seed"
    /\ \E key \in todo, ok \in WriteResults :
         /\ puts' = [puts EXCEPT ![key] = @ + 1]
         /\ put_values' = Insert(put_values, key, ToValue(test_objects[key]))
         /\ put_calls' = put_calls + 1
         /\ todo' = todo \ {key}
         /\ write_failed' = ~ok
         /\ IF ok
            THEN UNCHANGED << pc, err >>
            ELSE /\ pc' = "panicked"
                 /\ err' = "put_object"
    /\ UNCHANGED << param_vars, locator_vars, mclient, bucket_vars,
                    corpus_vars, objects, alter_rand, pass, batch_vars,
                    measurements >>

\* The seeding loop ends; pass 1 begins.
SeedDone ==
    /\ pc = "seed"
    /\ todo = {}
    /\ pc' = "alter"
    /\ pass' = 1
    /\ puts' = EmptyMap
    /\ put_values' = EmptyMap
    /\ UNCHANGED << param_vars, locator_vars, mclient, bucket_vars,
                    corpus_vars, objects, alter_rand, todo, put_calls,
                    batch_vars, measurements, write_failed, err >>

(* ----------------------------------------------------------- the passes *)

\* AlterObjects drawing the token and the integer anew for every object.
AlterObjectsDrawPerObject ==
    /\ pc = "alter"
    /\ \E rand_string \in [DOMAIN test_objects -> RandStrings],
          rand_id \in [DOMAIN test_objects -> RandIds] :
         /\ alter_rand' = Ok([rand_string |-> rand_string, rand_id |-> rand_id])
         /\ objects' =
               [k \in DOMAIN test_objects |->
                  ToValue(alter_object(test_objects[k], rand_string[k], rand_id[k]))]
    /\ pc' = IF Strategy(pass) = "sequential"
             THEN "run_sequential_test" ELSE "run_batch_test"
    /\ UNCHANGED << param_vars, locator_vars, mclient, bucket_vars,
                    corpus_vars, pass, todo, puts, put_values, put_calls, batch_vars,
                    measurements, write_failed, err >>

\* AlterObjects working on the objects of the corpus instead of clones.
AlterObjectsInPlace ==
    /\ pc = "alter"
    /\ \E rand_string \in RandStrings, rand_id \in RandIds :
         /\ alter_rand' = Ok([rand_string |-> rand_string, rand_id |-> rand_id])
         /\ objects' = alter_objects(test_objects, rand_string, rand_id)
         /\ test_objects' =
               [k \in DOMAIN test_objects |->
                  alter_object(test_objects[k], rand_string, rand_id)]
    /\ pc' = IF Strategy(pass) = "sequential"
             THEN "run_sequential_test" ELSE "run_batch_test"
    /\ UNCHANGED << param_vars, locator_vars, mclient, bucket_vars,
                    generated, pass, todo, puts, put_values, put_calls, batch_vars,
                    measurements, write_failed, err >>

\* let altered = alter_objects(&test_objects): one token and one integer
\* are drawn, and the runner of the pass is called with the result.
AlterObjects ==
    /\ pc = "alter"
    /\ \E rand_string \in RandStrings, rand_id \in RandIds :
         /\ alter_rand' = Ok([rand_string |-> rand_string, rand_id |-> rand_id])
         /\ objects' = alter_objects(test_objects, rand_string, rand_id)
    /\ pc' = IF Strategy(pass) = "sequential"
             THEN "run_sequential_test" ELSE "run_batch_test"
    /\ UNCHANGED << param_vars, locator_vars, mclient, bucket_vars,
                    corpus_vars, pass, todo, puts, put_values, put_calls, batch_vars,
                    measurements, write_failed, err >>

\* A runner has returned Ok: its arguments and locals are dropped, and
\* main goes on to the next pass, or returns.
Return ==
    /\ pc' = IF pass = 4 THEN "done" ELSE "alter"
    /\ pass' = IF pass = 4 THEN pass ELSE pass + 1
    /\ objects' = EmptyMap
    /\ alter_rand' = None
    /\ puts' = EmptyMap
    /\ put_values' = EmptyMap
    /\ batch' = <<>>
    /\ batch_count' = 0
    /\ batch_calls' = <<>>

\* run_sequential_test, up to its loop.
SeqEnter ==
    /\ pc = "run_sequential_test"
    /\ pc' = "seq_loop"
    /\ todo' = DOMAIN objects
    /\ puts' = [k \in DOMAIN objects |-> 0]
    /\ put_values' = EmptyMap
    /\ UNCHANGED << param_vars, locator_vars, mclient, bucket_vars,
                    corpus_vars, objects, alter_rand, pass, put_calls,
                    batch_vars, measurements, write_failed, err >>

\* SeqPut with the write issued a second time for the same key.
SeqPutTwice ==
    /\ pc = "seq_loop"
    /\ \E key \in todo, ok \in WriteResults :
         /\ puts' = [puts EXCEPT ![key] = @ + 2]
         /\ put_values' = Insert(put_values, key, objects[key])
         /\ put_calls' = put_calls + 2
         /\ todo' = todo \ {key}
         /\ write_failed' = ~ok
         /\ IF ok
            THEN UNCHANGED << pc, err >>
            ELSE /\ pc' = "panicked"
                 /\ err' = "put_object"
    /\ UNCHANGED << param_vars, locator_vars, mclient, bucket_vars,
                    corpus_vars, objects, alter_rand, pass, batch_vars,
                    measurements >>

\* One iteration of its loop: put_object(..).expect("put object").
SeqPut ==
    /\ pc = "seq_loop"
    /\ \E key \in todo, ok \in WriteResults :
         /\ puts' = [puts EXCEPT ![key] = @ + 1]
         /\ put_values' = Insert(put_values, key, objects[key])
         /\ put_calls' = put_calls + 1
         /\ todo' = todo \ {key}
         /\ write_failed' = ~ok
         /\ IF ok
            THEN UNCHANGED << pc, err >>
            ELSE /\ pc' = "panicked"
                 /\ err' = "put_object"
    /\ UNCHANGED << param_vars, locator_vars, mclient, bucket_vars,
                    corpus_vars, objects, alter_rand, pass, batch_vars,
                    measurements >>

\* Its loop has ended: the duration is printed and Ok returned.
SeqDone ==
    /\ pc = "seq_loop"
    /\ todo = {}
    /\ measurements' = Append(measurements, "sequential")
    /\ Return
    /\ UNCHANGED << param_vars, locator_vars, mclient, bucket_vars,
                    corpus_vars, todo, put_calls, write_failed, err >>

\* run_batch_test, up to its loop.
BatchEnter ==
    /\ pc = "run_batch_test"
    /\ pc' = "batch_loop"
    /\ todo' = DOMAIN objects
    /\ batch' = <<>>
    /\ batch_count' = 0
    /\ UNCHANGED << param_vars, locator_vars, mclient, bucket_vars,
                    corpus_vars, objects, alter_rand, pass, puts, put_values, put_calls,
                    batch_calls, measurements, write_failed, err >>

\* BatchRequest::Put(BatchPutOp {..})
BatchPut(key, value) == [bucket |-> BUCKET_NAME, key |-> key, value |-> value]

\* BatchStep with the counter set back to 0 when the list is cleared.
BatchStepResetCount ==
    /\ pc = "batch_loop"
    /\ \E key \in todo :
         LET pushed == Append(batch, BatchPut(key, objects[key]))
             count == batch_count + 1
         IN  /\ todo' = todo \ {key}
             /\ IF count = batch_size
                THEN /\ batch_calls' = Append(batch_calls, pushed)
                     /\ \E ok \in WriteResults :
                          /\ write_failed' = ~ok
                          /\ IF ok
                             THEN /\ batch' = <<>>
                                  /\ batch_count' = 0
                                  /\ UNCHANGED << pc, err >>
                             ELSE /\ batch' = pushed
                                  /\ batch_count' = count
                                  /\ pc' = "failed"
                                  /\ err' = "batch"
                ELSE /\ batch' = pushed
                     /\ batch_count' = count
                     /\ UNCHANGED << batch_calls, write_failed, pc, err >>
    /\ UNCHANGED << param_vars, locator_vars, mclient, bucket_vars,
                    corpus_vars, objects, alter_rand, pass, puts, put_values, put_calls,
                    measurements >>

\* BatchStep with the result of the batch call ignored.
BatchStepIgnoreErr ==
    /\ pc = "batch_loop"
    /\ \E key \in todo :
         LET pushed == Append(batch, BatchPut(key, objects[key]))
             count == batch_count + 1
         IN  /\ todo' = todo \ {key}
             /\ batch_count' = count
             /\ IF count = batch_size
                THEN /\ batch_calls' = Append(batch_calls, pushed)
                     /\ \E ok \in WriteResults : write_failed' = ~ok
                     /\ batch' = <<>>
                ELSE /\ batch' = pushed
                     /\ UNCHANGED << batch_calls, write_failed >>
    /\ UNCHANGED << pc, err, param_vars, locator_vars, mclient, bucket_vars,
                    corpus_vars, objects, alter_rand, pass, puts, put_values, put_calls,
                    measurements >>

\* One iteration of its loop: push, count, and at the threshold send the
\* list and clear it; a failed batch call is returned as the error.
BatchStep ==
    /\ pc = "batch_loop"
    /\ \E key \in todo :
         LET pushed == Append(batch, BatchPut(key, objects[key]))
             count == batch_count + 1
         IN  /\ todo' = todo \ {key}
             /\ batch_count' = count
             /\ IF count = batch_size
                THEN /\ batch_calls' = Append(batch_calls, pushed)
                     /\ \E ok \in WriteResults :
                          /\ write_failed' = ~ok
                          /\ IF ok
                             THEN /\ batch' = <<>>
                                  /\ UNCHANGED << pc, err >>
                             ELSE /\ batch' = pushed
                                  /\ pc' = "failed"
                                  /\ err' = "batch"
                ELSE /\ batch' = pushed
                     /\ UNCHANGED << batch_calls, write_failed, pc, err >>
    /\ UNCHANGED << param_vars, locator_vars, mclient, bucket_vars,
                    corpus_vars, objects, alter_rand, pass, puts, put_values, put_calls,
                    measurements >>

\* BatchDone printing the message of the sequential runner.
BatchDoneAsSequential ==
    /\ pc = "batch_loop"
    /\ todo = {}
    /\ measurements' = Append(measurements, "sequential")
    /\ Return
    /\ UNCHANGED << param_vars, locator_vars, mclient, bucket_vars,
                    corpus_vars, todo, put_calls, write_failed, err >>

\* Its loop has ended: the duration is printed and Ok returned.
BatchDone ==
    /\ pc = "batch_loop"
    /\ todo = {}
    /\ measurements' = Append(measurements, "batch")
    /\ Return
    /\ UNCHANGED << param_vars, locator_vars, mclient, bucket_vars,
                    corpus_vars, todo, put_calls, write_failed, err >>

Next ==
    \/ GetMoraySrvSockaddr
    \/ MorayClientNew
    \/ GetBucket
    \/ CreateBucket
    \/ GenObject
    \/ GenReturn
    \/ SeedPut
    \/ SeedDone
    \/ AlterObjects
    \/ SeqEnter
    \/ SeqPut
    \/ SeqDone
    \/ BatchEnter
    \/ BatchStep
    \/ BatchDone

Spec == Init /\ [][Next]_vars

(* ------------------------------------------- alter_objects on any corpus *)

\* Placement descriptors of an arbitrary corpus.
SharkPool == { MantaObjectShark("foo", n) : n \in {1, 3} }

\* The mappings alter_objects may be handed: any keys, and under each an
\* object of that identifier with any descriptor list, the empty one too.
Corpora ==
    UNION { { [k \in K |-> [object_id |-> k, sharks |-> f[k]]] :
                f \in [K -> SeqsUpTo(SharkPool, MaxSharks)] } :
            K \in SUBSET ObjectIds }

\* main is about to call alter_objects on an arbitrary corpus.
InitAlter ==
    /\ pc = "alter"
    /\ test_objects \in Corpora
    /\ num_objects = Cardinality(DOMAIN test_objects)
    /\ batch_size = 1
    /\ bucket = TRUE
    /\ mclient = TRUE
    /\ pass = 1
    /\ srv_lookup = None
    /\ host_lookup = None
    /\ srv_record = None
    /\ sock_addr = None
    /\ bucket_calls = <<>>
    /\ generated = <<>>
    /\ objects = EmptyMap
    /\ alter_rand = None
    /\ todo = {}
    /\ puts = EmptyMap
    /\ put_values = EmptyMap
    /\ put_calls = 0
    /\ batch = <<>>
    /\ batch_count = 0
    /\ batch_calls = <<>>
    /\ measurements = <<>>
    /\ write_failed = FALSE
    /\ err = "none"

NextAlter == AlterObjects

SpecAlter == InitAlter /\ [][NextAlter]_vars

(* ================================================================ claims *)

\* The run has ended with an error: main returned Err, or panicked.
Aborted == pc \in {"failed", "panicked"}

\* The number of entries in a list of batches.
RECURSIVE Entries(_)
Entries(calls) ==
    IF calls = <<>> THEN 0 ELSE Len(Head(calls)) + Entries(Tail(calls))

\* The keys a batch carries.
KeysOf(b) == { b[i].key : i \in 1 .. Len(b) }

\* The loop of a batched pass has visited every entry and no call failed.
BatchLoopEnded == pc = "batch_loop" /\ todo = {} /\ ~write_failed

\* The loop of a sequential pass has visited every entry and no call failed.
SeqLoopEnded == pc = "seq_loop" /\ todo = {} /\ ~write_failed

\* C1: a batched pass over M entries with threshold T in which no call
\* fails issues floor(M / T) batch calls, sends M - (M mod T) entries and
\* leaves M mod T entries unsent.
C1_BatchCallsFloor ==
    BatchLoopEnded =>
        LET M == Cardinality(DOMAIN objects)
            T == batch_size
        IN  /\ Len(batch_calls) = M \div T
            /\ Entries(batch_calls) = M - (M % T)
            /\ M - Entries(batch_calls) = M % T

\* C2: in a batched pass the pending list never holds more than T requests,
\* every batch call carries exactly T put-requests, no entry is carried by
\* two calls, and a pass over 2T entries makes two calls.
C2_PendingListBounded ==
    pc = "batch_loop" =>
        /\ Len(batch) <= batch_size
        /\ \A i \in 1 .. Len(batch_calls) :
             /\ Len(batch_calls[i]) = batch_size
             /\ Cardinality(KeysOf(batch_calls[i])) = batch_size
        /\ \A i, j \in 1 .. Len(batch_calls) :
             i # j => KeysOf(batch_calls[i]) \cap KeysOf(batch_calls[j]) = {}
        /\ (BatchLoopEnded /\ Cardinality(DOMAIN objects) = 2 * batch_size)
              => Len(batch_calls) = 2

\* C3: a sequential pass issues one put_object call for each key visited and
\* none for a key twice, in whatever order the keys are visited; when its
\* loop ends without a failure it has issued N calls, N the size of the
\* mapping, in the first pass and again in the fourth.
C3_SequentialOnePutPerKey ==
    pc = "seq_loop" =>
        LET N == Cardinality(DOMAIN test_objects)
        IN  /\ DOMAIN puts = DOMAIN objects
            /\ Cardinality(DOMAIN objects) = N
            /\ \A k \in DOMAIN objects : puts[k] = IF k \in todo THEN 0 ELSE 1
            /\ put_calls = (IF pass = 1 THEN 1 ELSE 2) * N
                              + Cardinality(DOMAIN objects \ todo)
            /\ SeqLoopEnded => put_calls = (IF pass = 1 THEN 2 ELSE 3) * N

\* The fourth pass, sequential like the first, has written every key of a
\* mapping of three entries.
C3_Witness ==
    /\ SeqLoopEnded
    /\ pass = 4
    /\ Cardinality(DOMAIN objects) = 3

\* C4: once the store has answered a write of a pass with an error the run
\* is aborted, no measurement exists for that pass, and nothing happens any
\* more: no store operation, no measurement, no later pass.
C4_WriteFailureIsFatal ==
    /\ [](write_failed /\ pass >= 1 => Aborted /\ Len(measurements) = pass - 1)
    /\ [][write_failed => UNCHANGED vars]_vars

\* A batch call of the third pass has failed.
C4_Witness ==
    /\ write_failed
    /\ err = "batch"
    /\ pass = 3
    /\ Len(batch_calls) = 1

\* alter_objects has returned and the runner has not started.
AlterReturned == pc \in {"run_sequential_test", "run_batch_test"}

\* C5 as stated: alter_objects keeps the key set and, for every object with
\* any number of descriptors from 0 up, the number of descriptors.
C5_AlterKeepsCounts ==
    AlterReturned =>
        /\ DOMAIN objects = DOMAIN test_objects
        /\ \A k \in DOMAIN test_objects :
             Len(objects[k].sharks) = Len(test_objects[k].sharks)

\* C5 as amended: alter_objects keeps the key set; an object with at least
\* one descriptor keeps its number of descriptors, and an object with none
\* comes out with one.
C5_AlterCounts ==
    AlterReturned =>
        /\ DOMAIN objects = DOMAIN test_objects
        /\ \A k \in DOMAIN test_objects :
             Len(objects[k].sharks) =
                IF Len(test_objects[k].sharks) = 0
                THEN 1 ELSE Len(test_objects[k].sharks)

\* A corpus with an object without descriptors and one with two or more has
\* been altered.
C5_Witness ==
    /\ AlterReturned
    /\ \E k \in DOMAIN test_objects : Len(test_objects[k].sharks) = 0
    /\ \E k \in DOMAIN test_objects : Len(test_objects[k].sharks) >= 2

\* C6: once generated, the baseline corpus never changes, and the mapping a
\* runner is handed is the alteration of that baseline with the pass's draws.
C6_BaselineUnchanged ==
    /\ [][pc # "gen_objects" => test_objects' = test_objects]_vars
    /\ [](AlterReturned =>
            objects = alter_objects(test_objects, alter_rand.val.rand_string,
                                    alter_rand.val.rand_id))

\* The fourth mutation of a corpus of three objects has been performed.
C6_Witness ==
    /\ AlterReturned
    /\ pass = 4
    /\ Cardinality(DOMAIN test_objects) = 3

\* The loop of gen_test_objects has run num_objects times.
GenLoopEnded == pc = "gen_objects" /\ Len(generated) = num_objects

\* The identifiers of the objects generated so far.
GeneratedIds == { generated[i].object_id : i \in 1 .. Len(generated) }

\* The index of the last generated object with identifier k.
LastWith(k) ==
    CHOOSE i \in 1 .. Len(generated) :
        /\ generated[i].object_id = k
        /\ \A j \in (i + 1) .. Len(generated) : generated[j].object_id # k

\* C7 as stated: gen_test_objects(N) returns a mapping with exactly N
\* entries, whatever identifiers the generator produced.
C7_ExactlyNKeys ==
    GenLoopEnded => Cardinality(DOMAIN test_objects) = num_objects

\* C7 as amended: the mapping has one entry for each distinct identifier
\* generated, holding the last object generated with it; so it has at most N
\* entries, and exactly N when the N identifiers are pairwise distinct.
C7_OneEntryPerDistinctId ==
    pc = "gen_objects" =>
        /\ DOMAIN test_objects = GeneratedIds
        /\ \A k \in DOMAIN test_objects : test_objects[k] = generated[LastWith(k)]
        /\ Cardinality(DOMAIN test_objects) <= Len(generated)
        /\ (Cardinality(GeneratedIds) = Len(generated))
              => Cardinality(DOMAIN test_objects) = Len(generated)

\* Three objects were generated, two of them under the same identifier with
\* different descriptors.
C7_Witness ==
    /\ GenLoopEnded
    /\ num_objects = 3
    /\ Cardinality(DOMAIN test_objects) = 2
    /\ \E i, j \in 1 .. 3 :
         /\ i < j
         /\ generated[i].object_id = generated[j].object_id
         /\ generated[i].sharks # generated[j].sharks

\* C8: when the SRV lookup returns no record, or the chosen record's host
\* resolves to no address, the locator returns an error, main returns it
\* (no panic), no client exists, no bucket or object operation was issued,
\* and nothing happens any more.
C8_DiscoveryFailureAborts ==
    /\ []((\/ srv_lookup = Ok(<<>>)
           \/ srv_record.ok /\ host_lookup[srv_record.val.target] = Ok(<<>>))
          => /\ ~sock_addr.ok
             /\ pc = "failed"
             /\ err = "discovery"
             /\ ~mclient
             /\ bucket_calls = <<>>
             /\ put_calls = 0
             /\ batch_calls = <<>>)
    /\ [][pc = "failed" => UNCHANGED vars]_vars

\* The lookup returned two records and the host of the chosen one resolved
\* to no address.
C8_Witness ==
    /\ pc = "failed"
    /\ srv_lookup.ok
    /\ Len(srv_lookup.val) = 2
    /\ srv_record.ok
    /\ host_lookup[srv_record.val.target] = Ok(<<>>)

\* The phase of the run.
Phase ==
    CASE pc \in {"create_client", "client_new"} -> "Discover"
      [] pc \in {"get_bucket", "create_bucket"} -> "ClientReady"
      [] pc = "gen_objects" -> "BucketEnsured"
      [] pc = "seed" -> "CorpusReady"
      [] pc = "done" -> "Done"
      [] Aborted -> "Aborted"
      [] OTHER -> CASE pass = 1 -> "Pass1"
                    [] pass = 2 -> "Pass2"
                    [] pass = 3 -> "Pass3"
                    [] pass = 4 -> "Pass4"

PhaseOrder ==
    << "Discover", "ClientReady", "BucketEnsured", "CorpusReady",
       "Pass1", "Pass2", "Pass3", "Pass4", "Done" >>

\* The position of a phase in the order (0 for the aborted run).
PhaseIndex(ph) ==
    IF \E i \in 1 .. Len(PhaseOrder) : PhaseOrder[i] = ph
    THEN CHOOSE i \in 1 .. Len(PhaseOrder) : PhaseOrder[i] = ph
    ELSE 0

InSequentialRunner == pc \in {"run_sequential_test", "seq_loop"}
InBatchRunner == pc \in {"run_batch_test", "batch_loop"}

\* C9: a run starts in Discover and every change of phase leads to the next
\* phase of the order, or ends the run with an error; a pass is entered with
\* all earlier passes measured and none later, its runner runs only on a
\* mutation performed in that pass, and the runners of the four passes are
\* sequential, batch, batch, sequential.
C9_PhaseOrder ==
    /\ Phase = "Discover"
    /\ [][\/ Phase' = Phase
          \/ Phase' = "Aborted"
          \/ PhaseIndex(Phase') = PhaseIndex(Phase) + 1]_vars
    /\ [](InSequentialRunner \/ InBatchRunner =>
             /\ alter_rand.ok
             /\ Len(measurements) = pass - 1)
    /\ [](InSequentialRunner => pass \in {1, 4})
    /\ [](InBatchRunner => pass \in {2, 3})
    /\ [][pc = "alter" /\ pc' # "alter" =>
             /\ ~alter_rand.ok /\ alter_rand'.ok
             /\ InSequentialRunner' \/ InBatchRunner']_vars
    /\ [](pc = "done" =>
             measurements = << "sequential", "batch", "batch", "sequential" >>)

\* A run has gone through all four passes.
C9_Witness ==
    /\ pc = "done"
    /\ Len(measurements) = 4
    /\ put_calls = 9

\* The bucket operations issued are get_bucket, then create_bucket if it
\* failed.
BucketCallsShape ==
    /\ Len(bucket_calls) <= 2
    /\ Len(bucket_calls) >= 1 => bucket_calls[1].op = "get_bucket"
    /\ Len(bucket_calls) = 2 =>
          /\ ~bucket_calls[1].ok
          /\ bucket_calls[2].op = "create_bucket"

\* C10: create_bucket is called exactly when the get_bucket call before it
\* failed, and at most once; whatever create_bucket answers, the run goes on
\* to generate the corpus; and a run whose bucket is absent panics at its
\* first write.
C10_CreateBucketNotFatal ==
    /\ [](BucketCallsShape)
    /\ [](Phase \notin {"Discover", "ClientReady", "Aborted"} =>
             /\ Len(bucket_calls) >= 1
             /\ (Len(bucket_calls) = 2) <=> ~bucket_calls[1].ok)
    /\ [][pc = "create_bucket" => pc' = "gen_objects" /\ err' = "none"]_vars
    /\ [](~bucket /\ put_calls > 0 =>
             write_failed /\ pc = "panicked" /\ put_calls = 1)

\* create_bucket failed and the run went through all its passes.
C10_Witness ==
    /\ pc = "done"
    /\ Len(bucket_calls) = 2
    /\ ~bucket_calls[2].ok

\* A step issues a store write: a put_object call or a batch call.
StoreCall == put_calls' > put_calls \/ Len(batch_calls') > Len(batch_calls)

\* The position of a control location in main, the pass counted in.
Stage ==
    CASE pc = "create_client" -> 0
      [] pc = "client_new" -> 1
      [] pc = "get_bucket" -> 2
      [] pc = "create_bucket" -> 3
      [] pc = "gen_objects" -> 4
      [] pc = "seed" -> 5
      [] pc = "alter" -> 3 + 3 * pass
      [] pc \in {"run_sequential_test", "run_batch_test"} -> 4 + 3 * pass
      [] pc \in {"seq_loop", "batch_loop"} -> 5 + 3 * pass
      [] OTHER -> 18

\* The iterations the running loop still has to make.
Remaining ==
    IF pc = "gen_objects" THEN num_objects - Len(generated) ELSE Cardinality(todo)

\* A bound on the steps a run can still take: 0 when it has ended.
StepsLeft == (18 - Stage) * (num_objects + 1) + Remaining

\* C11: a run ends (every step lowers StepsLeft, and a run that has not
\* ended can take a step), and it ends aborted only when an external call
\* failed; a run that ends in Done has printed one measurement for each pass, naming
\* the runner of that pass (sequential, batch, batch, sequential); a
\* measurement is printed by the running pass when its loop has visited
\* every entry, and the store calls of a pass are all issued before it.
C11_SuccessfulRunMeasures ==
    /\ [](StepsLeft \in Nat)
    /\ [][StepsLeft' < StepsLeft]_vars
    /\ [](pc = "done" \/ Aborted \/ ENABLED Next)
    /\ [](Aborted => write_failed \/ err \in {"discovery", "client"})
    /\ [](pc = "done" =>
             measurements = << "sequential", "batch", "batch", "sequential" >>)
    /\ [][measurements' # measurements =>
             /\ todo = {}
             /\ ~StoreCall
             /\ Len(measurements') = pass
             /\ measurements' =
                  Append(measurements,
                         IF InSequentialRunner THEN "sequential" ELSE "batch")]_vars
    /\ [][StoreCall /\ pass >= 1 =>
             /\ Len(measurements) = pass - 1
             /\ measurements' = measurements]_vars

\* A run in which no call failed has ended: get_bucket succeeded, nine
\* put_object calls were made and four measurements printed.
C11_Witness ==
    /\ pc = "done"
    /\ ~write_failed
    /\ Len(bucket_calls) = 1
    /\ num_objects = 3
    /\ put_calls = 9
    /\ Len(measurements) = 4

\* C12: every object of the corpus gen_test_objects builds and returns has
\* two, three or four placement descriptors, never none.
C12_DescriptorCount ==
    \A k \in DOMAIN test_objects :
        /\ Len(test_objects[k].sharks) \in {2, 3, 4}
        /\ Len(test_objects[k].sharks) # 0

\* gen_test_objects has returned a corpus of three objects.
C12_Witness ==
    /\ pc = "seed"
    /\ put_calls = 0
    /\ Cardinality(DOMAIN test_objects) = 3

\* All but the last element of a sequence; the empty sequence of an empty one.
Front(q) == IF q = <<>> THEN <<>> ELSE SubSeq(q, 1, Len(q) - 1)

\* C13: in the mapping one alter_objects call returns, there is one
\* (location, storage-node) pair that is the last descriptor of every
\* object, and the descriptors before it are those of the input object
\* without its last one, in the same order.
C13_SharedLastDescriptor ==
    AlterReturned =>
        \E dc \in RandStrings, id \in {"7.stor.domain", "65535.stor.domain"} :
            \A k \in DOMAIN objects :
                LET out == objects[k].sharks
                IN  /\ Len(out) >= 1
                    /\ out[Len(out)] = [datacenter |-> dc, manta_storage_id |-> id]
                    /\ Front(out) = Front(test_objects[k].sharks)

\* A corpus of three objects with different descriptor lists, one of them
\* empty, has been altered.
C13_Witness ==
    /\ AlterReturned
    /\ Cardinality(DOMAIN objects) = 3
    /\ Cardinality({ test_objects[k].sharks : k \in DOMAIN test_objects }) = 3
    /\ \E k \in DOMAIN test_objects : test_objects[k].sharks = <<>>

\* C14: the endpoint the locator returns is built from one record of the
\* lookup's answer, the one get_srv_record chose: its address is the first
\* address the resolver gave for that record's target and its port is that
\* record's port.
C14_EndpointFromOneCandidate ==
    sock_addr.ok =>
        /\ srv_lookup.ok
        /\ srv_record.ok
        /\ \E i \in 1 .. Len(srv_lookup.val) :
             LET c == srv_lookup.val[i]
             IN  /\ srv_record.val = c
                 /\ host_lookup[c.target].ok
                 /\ Len(host_lookup[c.target].val) >= 1
                 /\ sock_addr.val.ip = host_lookup[c.target].val[1]
                 /\ sock_addr.val.port = c.port

\* The lookup answered with two records whose hosts resolve to different
\* first addresses, the second was chosen, and its host has two addresses.
C14_Witness ==
    /\ pc = "client_new"
    /\ sock_addr.ok
    /\ Len(srv_lookup.val) = 2
    /\ srv_record.val = srv_lookup.val[2]
    /\ Len(host_lookup[srv_record.val.target].val) = 2
    /\ host_lookup[srv_lookup.val[1].target].ok
    /\ Len(host_lookup[srv_lookup.val[1].target].val) >= 1
    /\ host_lookup[srv_lookup.val[1].target].val[1] # sock_addr.val.ip

\* The descriptor lists C15 allows: location "foo" twice, the first on
\* storage node 1 or 2, the second on storage node 3 or 4.
TwoSharkLists ==
    { << [datacenter |-> "foo", manta_storage_id |-> a],
         [datacenter |-> "foo", manta_storage_id |-> b] >> :
        a \in {"1.stor.domain", "2.stor.domain"},
        b \in {"3.stor.domain", "4.stor.domain"} }

\* C15: every object gen_test_objects builds, and every object of the corpus
\* it returns, has exactly two descriptors, the first with storage-node
\* number 1 or 2 and the second with 3 or 4, whatever descriptors the
\* arbitrary record came with.
C15_TwoDescriptorsInOrder ==
    /\ \A i \in 1 .. Len(generated) : generated[i].sharks \in TwoSharkLists
    /\ \A k \in DOMAIN test_objects : test_objects[k].sharks \in TwoSharkLists

\* Three objects have been generated, with both values of the first draw
\* and both values of the second among them.
C15_Witness ==
    /\ GenLoopEnded
    /\ Cardinality(DOMAIN test_objects) = 3
    /\ { test_objects[k].sharks[1].manta_storage_id : k \in DOMAIN test_objects }
          = {"1.stor.domain", "2.stor.domain"}
    /\ { test_objects[k].sharks[2].manta_storage_id : k \in DOMAIN test_objects }
          = {"3.stor.domain", "4.stor.domain"}

\* C16: in the loop of a batched pass the counter is the number of entries
\* visited so far in the pass; no batch call has been made before the T-th
\* entry, exactly one, carrying the first T entries, from the T-th entry
\* on, and the entries visited after the T-th are all in the pending list.
C16_OneBatchCallPerPass ==
    pc = "batch_loop" =>
        LET visited == DOMAIN objects \ todo
            T == batch_size
        IN  /\ batch_count = Cardinality(visited)
            /\ Len(batch_calls) <= 1
            /\ batch_count < T =>
                  /\ batch_calls = <<>>
                  /\ Len(batch) = batch_count
                  /\ KeysOf(batch) = visited
            /\ batch_count >= T =>
                  /\ Len(batch_calls) = 1
                  /\ Len(batch_calls[1]) = T
                  /\ Len(batch) = batch_count - T
                  /\ KeysOf(batch_calls[1]) \cap KeysOf(batch) = {}
                  /\ KeysOf(batch_calls[1]) \cup KeysOf(batch) = visited

\* A batched pass with threshold 1 has visited three entries: one call was
\* made and two entries are left in the pending list.
C16_Witness ==
    /\ BatchLoopEnded
    /\ batch_size = 1
    /\ Len(batch_calls) = 1
    /\ Len(batch) = 2

\* C17: the seeding loop runs between corpus generation and the first pass,
\* before any mutation, measurement or batch call; it writes each object
\* of the baseline corpus, as generated, with one put_object call; a failed
\* seeding write panics with no pass started; pass 1 starts when all N
\* objects are written; and a run that ends in Done has made 3N put_object
\* calls.
C17_SeedingWritesBaseline ==
    /\ [](pc = "seed" =>
             /\ pass = 0
             /\ measurements = <<>>
             /\ batch_calls = <<>>
             /\ objects = EmptyMap
             /\ ~write_failed
             /\ DOMAIN puts = DOMAIN test_objects
             /\ \A k \in DOMAIN test_objects :
                  puts[k] = IF k \in todo THEN 0 ELSE 1
             /\ put_calls = Cardinality(DOMAIN test_objects \ todo)
             /\ DOMAIN put_values = DOMAIN test_objects \ todo
             /\ \A k \in DOMAIN put_values :
                  put_values[k] = ToValue(test_objects[k]))
    /\ [](write_failed /\ pass = 0 =>
             /\ pc = "panicked"
             /\ err = "put_object"
             /\ measurements = <<>>
             /\ objects = EmptyMap)
    /\ [][pass = 0 /\ pass' # 0 =>
             /\ pc = "seed"
             /\ pass' = 1
             /\ todo = {}
             /\ put_calls = Cardinality(DOMAIN test_objects)]_vars
    /\ [](pc = "done" => put_calls = 3 * Cardinality(DOMAIN test_objects))

\* The three objects of a corpus have been seeded and pass 1 begins.
C17_Witness ==
    /\ pc = "alter"
    /\ pass = 1
    /\ put_calls = 3
    /\ Cardinality(DOMAIN test_objects) = 3

====
